---- MODULE Spec2Model ----
(***************************************************************************)
(* nvcv::cuda::TensorWrap (TensorWrap.hpp): a non-owning N-D view made of  *)
(* a base pointer and N byte strides, some fixed by the template           *)
(* parameter pack (Strides...), the others (-1 in the pack) stored in the  *)
(* object.  The model keeps the machine widths of the code: int is 32-bit  *)
(* two's complement, tensor strides and pointers are 64-bit.  A 64-bit     *)
(* value is the record [hi, lo] of its two 32-bit words, each written as   *)
(* the signed integer with that bit pattern.  Sequences are 1-based: slot  *)
(* i of the code is index i+1 here.                                        *)
(***************************************************************************)
EXTENDS Integers, Sequences, FiniteSets, TLC

VARIABLES
    kStride,   \* the template parameter pack Strides... of the view type
    status,    \* "none" (nothing constructed), "built", "aborted" (NVCV_ASSERT failed)
    wrap,      \* the host-side view object: [m_data, m_strides]
    input,     \* what the constructor was given (pointer and strides, or a descriptor)
    last,      \* the call that has returned and whose result the caller holds
    copies,    \* per kernel worker: its own by-value copy of the view
    frame,     \* per kernel worker: the doGetPtr invocation it is executing
    acc,       \* storage cells of the doGetPtr local 'offset'
    mem,       \* the addressed buffer: address -> value, for the addresses written
    writes     \* the stores made so far, in order

vars == <<kStride, status, wrap, input, last, copies, frame, acc, mem, writes>>

----------------------------------------------------------------------------
(* 32-bit and 64-bit two's complement arithmetic *)

Int32Max == 2147483647
Int32Min == -Int32Max - 1

\* a + b stays inside the int range
AddFits(a, b) == ~(b > 0 /\ a > Int32Max - b) /\ ~(b < 0 /\ a < Int32Min - b)

\* a + b on 32-bit words, modulo 2^32
AddW(a, b) ==
    IF b > 0 /\ a > Int32Max - b THEN (a + Int32Min) + (b + Int32Min)
    ELSE IF b < 0 /\ a < Int32Min - b THEN (a - Int32Min) + (b - Int32Min)
    ELSE a + b

Abs(a) == IF a < 0 THEN -a ELSE a

\* a * b stays inside the int range
MulFits(a, b) ==
    IF a = 0 \/ b = 0 THEN TRUE
    ELSE IF a = Int32Min THEN b = 1
    ELSE IF b = Int32Min THEN a = 1
    ELSE IF (a > 0) = (b > 0) THEN Abs(a) <= Int32Max \div Abs(b)
    ELSE \/ Abs(a) <= Int32Max \div Abs(b)
         \/ /\ Abs(a) = (Int32Max \div Abs(b)) + 1
            /\ Int32Max % Abs(b) = Abs(b) - 1

\* unsigned comparison of two 32-bit words
ULt(a, b) == IF (a >= 0) = (b >= 0) THEN a < b ELSE a >= 0

\* int -> int64_t (sign extension); also the 64-bit form of a small number
ToInt64(a) == [hi |-> IF a < 0 THEN -1 ELSE 0, lo |-> a]

\* the 64-bit value is one an int can hold
Fits32(x) == x = ToInt64(x.lo)

\* x + y on 64-bit values, modulo 2^64
Add64(x, y) ==
    LET lo == AddW(x.lo, y.lo)
        carry == IF ULt(lo, x.lo) THEN 1 ELSE 0
    IN [hi |-> AddW(AddW(x.hi, y.hi), carry), lo |-> lo]

\* signed x <= y on 64-bit values
Le64(x, y) == \/ x.hi < y.hi
              \/ x.hi = y.hi /\ (x.lo = y.lo \/ ULt(x.lo, y.lo))

Shl8W(a) == LET m == a % 16777216 IN (IF m >= 8388608 THEN m - 16777216 ELSE m) * 256

\* x * 256 on 64-bit values
Shl8(x) == [hi |-> AddW(Shl8W(x.hi), (x.lo \div 16777216) % 256), lo |-> Shl8W(x.lo)]

\* a * d as a 64-bit value, for an int a and -128 <= d <= 255
MulByte(a, d) ==
    Add64(Shl8(Shl8(ToInt64((a \div 65536) * d))), ToInt64((a % 65536) * d))

\* the full 64-bit product of two ints (b taken byte by byte, high byte first)
Mul64(a, b) ==
    IF MulFits(a, b) THEN ToInt64(a * b)
    ELSE LET r3 == MulByte(a, b \div 16777216)
             r2 == Add64(Shl8(r3), MulByte(a, (b \div 65536) % 256))
             r1 == Add64(Shl8(r2), MulByte(a, (b \div 256) % 256))
         IN Add64(Shl8(r1), MulByte(a, b % 256))

Min(a, b) == IF a < b THEN a ELSE b

----------------------------------------------------------------------------
(* The view type: template parameters and data members *)

RuntimeStride == -1

kNumDimensions == Len(kStride)
kVariableStrides == Cardinality({i \in DOMAIN kStride : kStride[i] = RuntimeStride})
kConstantStrides == kNumDimensions - kVariableStrides

\* TensorWrap() = default: m_data = nullptr, m_strides = {}
DefaultWrap == [m_data |-> ToInt64(0), m_strides |-> [i \in 1..kVariableStrides |-> 0]]

\* the implicit copy constructor: both members, by value
CopyWrap(view) == [m_data |-> view.m_data, m_strides |-> view.m_strides]

----------------------------------------------------------------------------
(* Constructors *)

\* TensorWrap(const DataType *data, Args... strides)
RawCtor(data, strides) == [m_data |-> data, m_strides |-> strides]

\* TensorWrap(const IImageDataStridedCuda &image)
ImageCtorNoStride(image) == [m_data |-> image.basePtr, m_strides |-> DefaultWrap.m_strides]
ImageCtor(image) ==
    [m_data |-> image.basePtr,
     m_strides |-> [DefaultWrap.m_strides EXCEPT ![1] = image.rowStride]]

\* NVCV_ASSERT(x): the program aborts when x is false
Aborted == [ok |-> FALSE, wrap |-> DefaultWrap]
NVCV_ASSERT(x, rest) == IF x THEN rest ELSE Aborted

\* int64_t -> int in 'm_strides[i] = tensor.stride(i)': the low word is kept
NarrowToInt(x) == x.lo

\* tensor.stride(i) == kStride[i]
ConstStrideUnchecked(tensor, i) == TRUE
ConstStrideMatches(tensor, i) == tensor.stride[i + 1] = ToInt64(kStride[i + 1])

\* tensor.stride(i) <= TypeTraits<int>::max
VarStrideInRange(tensor, i) == Le64(tensor.stride[i + 1], ToInt64(Int32Max))

\* the loop 'for (int i = 0; i < kNumDimensions; ++i)' of the tensor constructor
RECURSIVE TensorLoop(_, _, _)
TensorLoop(tensor, i, view) ==
    IF ~(i < kNumDimensions) THEN [ok |-> TRUE, wrap |-> view]
    ELSE IF kStride[i + 1] # RuntimeStride
    THEN NVCV_ASSERT(ConstStrideMatches(tensor, i), TensorLoop(tensor, i + 1, view))
    ELSE IF i < kVariableStrides
    THEN NVCV_ASSERT(VarStrideInRange(tensor, i),
             TensorLoop(tensor, i + 1,
                 [view EXCEPT !.m_strides[i + 1] = NarrowToInt(tensor.stride[i + 1])]))
    ELSE TensorLoop(tensor, i + 1, view)

\* TensorWrap(const ITensorDataStridedCuda &tensor)
TensorCtor(tensor) ==
    NVCV_ASSERT(tensor.rank >= kNumDimensions,
        TensorLoop(tensor, 0, [DefaultWrap EXCEPT !.m_data = tensor.basePtr]))

----------------------------------------------------------------------------
(* Coordinate-to-address computation *)

\* the local 'int offset = 0'.  wide is the sum carried in 64 bits; the int the
\* code holds is its low word; ub records that a product or a sum left the int
\* range (signed overflow: undefined behaviour).
ZeroAcc == [wide |-> ToInt64(0), ub |-> FALSE]

\* the value of the 32-bit 'offset'
OffsetShort(a) == a.wide.lo % 65536
OffsetInt(a) == a.wide.lo

\* offset += coord * stride
MulAdd(a, coord, stride) ==
    LET w == Add64(a.wide, Mul64(coord, stride))
    IN [wide |-> w, ub |-> a.ub \/ ~MulFits(coord, stride) \/ ~Fits32(w)]

kArgSize(c) == Len(c)
kVarSize(c) == Min(kArgSize(c), kVariableStrides)
kDimSize(c) == Min(kArgSize(c), kNumDimensions)

\* for (int i = 0; i < kVarSize; ++i) offset += coords[i] * m_strides[i];
RECURSIVE VarLoop(_, _, _, _)
VarLoop(view, c, i, a) ==
    IF i < kVarSize(c)
    THEN VarLoop(view, c, i + 1, MulAdd(a, c[i + 1], view.m_strides[i + 1]))
    ELSE a

\* for (int i = kVariableStrides; i < kDimSize; ++i) offset += coords[i] * kStride[i];
RECURSIVE ConstLoop(_, _, _)
ConstLoop(c, i, a) ==
    IF i < kDimSize(c)
    THEN ConstLoop(c, i + 1, MulAdd(a, c[i + 1], kStride[i + 1]))
    ELSE a

\* the two loops of doGetPtr
doGetPtrOffsetVarOnly(view, c) == VarLoop(view, c, 0, ZeroAcc)
doGetPtrOffsetInnermost(view, c) ==
    LET n == kNumDimensions
        p == [i \in 1..n |-> IF i <= n - Len(c) THEN 0 ELSE c[i - (n - Len(c))]]
    IN ConstLoop(p, kVariableStrides, VarLoop(view, p, 0, ZeroAcc))
doGetPtrOffset(view, c) == ConstLoop(c, kVariableStrides, VarLoop(view, c, 0, ZeroAcc))

\* m_data + offset.  After signed overflow the build may have wrapped the int
\* (the 32-bit multiply-add) or carried the sum in 64 bits (widening).
PtrOutcomes(data, a) ==
    {Add64(data, ToInt64(OffsetInt(a)))} \cup (IF a.ub THEN {Add64(data, a.wide)} ELSE {})

\* TensorWrap<const T, Strides...>::doGetPtr: the addresses the call may return
doGetPtr(view, c) == PtrOutcomes(view.m_data, doGetPtrOffset(view, c))

\* TensorWrap<T, Strides...>::doGetPtr: const_cast of the base's result
doGetPtrMutableVarOnly(view, c) ==
    PtrOutcomes(view.m_data, VarLoop(view, c, 0, ZeroAcc))
doGetPtrMutable(view, c) == doGetPtr(view, c)

\* operator[](DimType c): c = <<x>>, <<x, y>>, <<x, y, z>> or <<x, y, z, w>> is
\* handed to doGetPtr as (c.x), (c.y, c.x), (c.z, c.y, c.x), (c.w, c.z, c.y, c.x)
SubscriptArgs(c) == [i \in 1..Len(c) |-> c[Len(c) + 1 - i]]

----------------------------------------------------------------------------
(* State *)

NoInput == [kind |-> "none", basePtr |-> ToInt64(0), rank |-> 0, stride |-> <<>>]
NoCall == [op |-> "none", who |-> 0, c |-> <<>>, ret |-> ToInt64(0), val |-> 0,
           strides |-> <<>>]
IdleFrame == [pc |-> "idle", op |-> "none", c |-> <<>>, i |-> 0, ret |-> ToInt64(0),
              strides |-> <<>>]

NumWorkers == 2
Workers == 1..NumWorkers

InitFor(specs) ==
    /\ kStride \in specs
    /\ status = "none"
    /\ wrap = DefaultWrap
    /\ input = NoInput
    /\ last = NoCall
    /\ copies = [w \in Workers |-> DefaultWrap]
    /\ frame = [w \in Workers |-> IdleFrame]
    /\ acc = [w \in Workers |-> ZeroAcc]
    /\ mem = <<>>
    /\ writes = <<>>

----------------------------------------------------------------------------
(* Host-side operations on the view.  Each takes the set its arguments are *)
(* drawn from.                                                             *)

TupleSet(S, n) == [1..n -> S]

\* the tensor descriptors of rank N-1, N and N+1: the first N strides drawn from
\* strides, the stride of an axis past the view's dimensionality being extra
Tensors(bases, strides, extra) ==
    UNION {{[basePtr |-> b, rank |-> r,
             stride |-> [i \in 1..r |-> IF i <= kNumDimensions THEN s[i] ELSE extra]] :
                b \in bases, s \in TupleSet(strides, Min(r, kNumDimensions))} :
           r \in {r \in (kNumDimensions - 1)..(kNumDimensions + 1) : r >= 1}}

\* TensorWrap w(data, strides...): sizeof...(Args) == kVariableStrides
ConstructRaw(bases, strides) ==
    /\ status = "none"
    /\ \E data \in bases, s \in TupleSet(strides, kVariableStrides) :
          /\ wrap' = RawCtor(data, s)
          /\ input' = [kind |-> "raw", basePtr |-> data, rank |-> Len(s),
                       stride |-> [i \in 1..Len(s) |-> ToInt64(s[i])]]
    /\ status' = "built"
    /\ UNCHANGED <<kStride, last, copies, frame, acc, mem, writes>>

\* TensorWrap w(image): kVariableStrides == 1 && kNumDimensions == 2
ConstructImage(images) ==
    /\ status = "none"
    /\ kVariableStrides = 1 /\ kNumDimensions = 2
    /\ \E image \in images :
          /\ wrap' = ImageCtor(image)
          /\ input' = [kind |-> "image", basePtr |-> image.basePtr, rank |-> 1,
                       stride |-> <<ToInt64(image.rowStride)>>]
    /\ status' = "built"
    /\ UNCHANGED <<kStride, last, copies, frame, acc, mem, writes>>

\* TensorWrap w(tensor)
ConstructTensor(tensors) ==
    /\ status = "none"
    /\ \E tensor \in tensors :
          LET r == TensorCtor(tensor)
          IN /\ wrap' = r.wrap
             /\ status' = IF r.ok THEN "built" ELSE "aborted"
             /\ input' = [kind |-> "tensor", basePtr |-> tensor.basePtr,
                          rank |-> tensor.rank, stride |-> tensor.stride]
    /\ UNCHANGED <<kStride, last, copies, frame, acc, mem, writes>>

\* w.ptr(c...): sizeof...(Args) <= kNumDimensions
Ptr(coords) ==
    /\ status = "built" /\ last = NoCall
    /\ \E n \in 0..kNumDimensions : \E c \in TupleSet(coords, n) :
          \E ret \in doGetPtr(wrap, c) :
             last' = [NoCall EXCEPT !.op = "ptr", !.c = c, !.ret = ret]
    /\ UNCHANGED <<kStride, status, wrap, input, copies, frame, acc, mem, writes>>

\* &w[c] for a coordinate c of 1 to 4 components, at most kNumDimensions
Subscript(coords) ==
    /\ status = "built" /\ last = NoCall
    /\ \E n \in 1..kNumDimensions : \E c \in TupleSet(coords, n) :
          \E ret \in doGetPtr(wrap, SubscriptArgs(c)) :
             last' = [NoCall EXCEPT !.op = "subscript", !.c = c, !.ret = ret]
    /\ UNCHANGED <<kStride, status, wrap, input, copies, frame, acc, mem, writes>>

\* w.strides()
Strides ==
    /\ status = "built" /\ last = NoCall
    /\ last' = [NoCall EXCEPT !.op = "strides", !.strides = wrap.m_strides]
    /\ UNCHANGED <<kStride, status, wrap, input, copies, frame, acc, mem, writes>>

\* the caller is done with the returned pointer
Return ==
    /\ last # NoCall
    /\ last' = NoCall
    /\ UNCHANGED <<kStride, status, wrap, input, copies, frame, acc, mem, writes>>

HostNext(D) ==
    \/ ConstructRaw(D.bases, D.strides)
    \/ ConstructImage([basePtr : D.bases, rowStride : D.strides])
    \/ ConstructTensor(Tensors(D.tensorBases, D.tensorStrides, D.extraStride))
    \/ Ptr(D.coords[kNumDimensions])
    \/ Subscript(D.coords[kNumDimensions])
    \/ Strides
    \/ Return

MaxCoord == 3

\* element sizes, strides and coordinates of ordinary image tensors
Nominal ==
    [specs |-> {<<4>>, <<-1, 4>>, <<-1, 1>>, <<-1, -1, 4>>, <<-1, -1, -1, 4>>,
                <<-1, -1, 16, 4>>, <<4, -1>>},
     bases |-> {ToInt64(4096), ToInt64(1048576)},
     strides |-> {16, 640, 1536, 6144},
     tensorBases |-> {ToInt64(8192)},
     tensorStrides |-> {ToInt64(3), ToInt64(4), ToInt64(16)},
     extraStride |-> ToInt64(3),
     coords |-> [n \in 1..4 |-> (0..MaxCoord) \cup (IF n <= 2 THEN {5, 10} ELSE {})]]

Init == InitFor(Nominal.specs)
Next == HostNext(Nominal)
Spec == Init /\ [][Next]_vars

\* strides and coordinates at the ends of the int range, tensor strides just
\* outside it (2^31, -2^31 - 1) and 2^32 for an axis the view does not use
Wide ==
    [specs |-> {<<-1, 4>>, <<-1, -1, 4>>},
     bases |-> {ToInt64(4096)},
     strides |-> {4, 1073741824, Int32Max, Int32Min},
     tensorBases |-> {ToInt64(8192)},
     tensorStrides |-> {ToInt64(4), ToInt64(1073741824), ToInt64(Int32Max),
                        [hi |-> 0, lo |-> Int32Min], [hi |-> -1, lo |-> Int32Max]},
     extraStride |-> [hi |-> 1, lo |-> 0],
     coords |-> [n \in 1..4 |-> {-1, 0, 1, 2, 4}]]

InitWide == InitFor(Wide.specs)
NextWide == HostNext(Wide)
SpecWide == InitWide /\ [][NextWide]_vars

----------------------------------------------------------------------------
(* Kernel-side operations: every worker uses its own copy of the view *)

\* the kernel launch hands the view to every worker by value
Launch ==
    /\ status = "built"
    /\ copies' = [w \in Workers |-> CopyWrap(wrap)]
    /\ status' = "launched"
    /\ UNCHANGED <<kStride, wrap, input, last, frame, acc, mem, writes>>

\* the buffer holds 0 before any store
MemLoad(addr) == IF addr \in DOMAIN mem THEN mem[addr] ELSE 0
MemStore(addr, v) == [a \in DOMAIN mem \cup {addr} |-> IF a = addr THEN v ELSE mem[a]]

MaxWrites == 2

\* the coordinates handed to doGetPtr by 'w[c]' and by '*w.ptr(c...)'
FormArgs(form, c) == IF form = "subscript" THEN SubscriptArgs(c) ELSE c

\* worker w: 'view[c] = v' or '*view.ptr(c...) = v' through the mutable view;
\* the n-th store writes the value n
Store(w, coords) ==
    /\ status = "launched" /\ last = NoCall
    /\ Len(writes) < MaxWrites
    /\ \E form \in {"subscript", "ptr"}, c \in TupleSet(coords, kNumDimensions) :
          \E addr \in doGetPtrMutable(copies[w], FormArgs(form, c)) :
             /\ mem' = MemStore(addr, Len(writes) + 1)
             /\ writes' = Append(writes, [who |-> w, args |-> FormArgs(form, c),
                                          val |-> Len(writes) + 1])
    /\ UNCHANGED <<kStride, status, wrap, input, last, copies, frame, acc>>

\* worker w: 'x = view[c]' through the read-only view
Load(w, coords) ==
    /\ status = "launched" /\ last = NoCall
    /\ \E c \in TupleSet(coords, kNumDimensions) :
          \E addr \in doGetPtr(copies[w], SubscriptArgs(c)) :
             last' = [NoCall EXCEPT !.op = "load", !.who = w, !.c = c, !.ret = addr,
                                    !.val = MemLoad(addr)]
    /\ UNCHANGED <<kStride, status, wrap, input, copies, frame, acc, mem, writes>>

MemNext(D) ==
    \/ ConstructRaw(D.bases, D.strides)
    \/ Launch
    \/ \E w \in Workers : Store(w, D.coords[kNumDimensions])
    \/ \E w \in Workers : Load(w, D.coords[kNumDimensions])
    \/ Return

\* a small buffer; the runtime stride 4 makes (1, 0) and (0, 1) one address
Small ==
    [specs |-> {<<4>>, <<-1, 4>>},
     bases |-> {ToInt64(4096)},
     strides |-> {4, 16},
     coords |-> [n \in 1..4 |-> {0, 1}]]

InitMem == InitFor(Small.specs)
NextMem == MemNext(Small)
SpecMem == InitMem /\ [][NextMem]_vars

\* the storage of the local 'offset' of worker w's doGetPtr invocation: an
\* automatic variable, one per invocation
AccCellShared(w) == 1
AccCell(w) == w

\* worker w calls view.ptr(c...) or view[c]: doGetPtr starts, 'int offset = 0'
Begin(w, coords) ==
    /\ status = "launched" /\ frame[w].pc = "idle"
    /\ \E op \in {"ptr", "subscript"}, n \in 0..kNumDimensions :
          \E c \in TupleSet(coords, n) :
             /\ op = "subscript" => n >= 1
             /\ frame' = [frame EXCEPT ![w] =
                   [IdleFrame EXCEPT !.pc = "var", !.op = op, !.c = FormArgs(op, c)]]
    /\ acc' = [acc EXCEPT ![AccCell(w)] = ZeroAcc]
    /\ UNCHANGED <<kStride, status, wrap, input, last, copies, mem, writes>>

\* one turn of 'for (i = 0; i < kVarSize; ++i) offset += coords[i] * m_strides[i]'
StepVar(w) ==
    /\ frame[w].pc = "var"
    /\ LET f == frame[w]
       IN IF f.i < kVarSize(f.c)
          THEN /\ acc' = [acc EXCEPT ![AccCell(w)] =
                     MulAdd(acc[AccCell(w)], f.c[f.i + 1], copies[w].m_strides[f.i + 1])]
               /\ frame' = [frame EXCEPT ![w].i = f.i + 1]
          ELSE /\ frame' = [frame EXCEPT ![w].pc = "const", ![w].i = kVariableStrides]
               /\ acc' = acc
    /\ UNCHANGED <<kStride, status, wrap, input, last, copies, mem, writes>>

\* one turn of 'for (i = kVariableStrides; i < kDimSize; ++i) offset += coords[i] * kStride[i]'
StepConst(w) ==
    /\ frame[w].pc = "const"
    /\ LET f == frame[w]
       IN IF f.i < kDimSize(f.c)
          THEN /\ acc' = [acc EXCEPT ![AccCell(w)] =
                     MulAdd(acc[AccCell(w)], f.c[f.i + 1], kStride[f.i + 1])]
               /\ frame' = [frame EXCEPT ![w].i = f.i + 1]
          ELSE /\ frame' = [frame EXCEPT ![w].pc = "ret"]
               /\ acc' = acc
    /\ UNCHANGED <<kStride, status, wrap, input, last, copies, mem, writes>>

\* return reinterpret_cast<const T *>(m_data + offset)
Finish(w) ==
    /\ frame[w].pc = "ret"
    /\ \E ret \in PtrOutcomes(copies[w].m_data, acc[AccCell(w)]) :
          frame' = [frame EXCEPT ![w].pc = "done", ![w].ret = ret]
    /\ UNCHANGED <<kStride, status, wrap, input, last, copies, acc, mem, writes>>

\* worker w calls view.strides()
WorkerStrides(w) ==
    /\ status = "launched" /\ frame[w].pc = "idle"
    /\ frame' = [frame EXCEPT ![w] =
          [IdleFrame EXCEPT !.pc = "done", !.op = "strides",
                            !.strides = copies[w].m_strides]]
    /\ UNCHANGED <<kStride, status, wrap, input, last, copies, acc, mem, writes>>

\* worker w is done with what the call returned
Resume(w) ==
    /\ frame[w].pc = "done"
    /\ frame' = [frame EXCEPT ![w] = IdleFrame]
    /\ UNCHANGED <<kStride, status, wrap, input, last, copies, acc, mem, writes>>

ParNext(D) ==
    \/ ConstructRaw(D.bases, D.strides)
    \/ Launch
    \/ \E w \in Workers : Begin(w, D.coords[kNumDimensions])
    \/ \E w \in Workers : StepVar(w)
    \/ \E w \in Workers : StepConst(w)
    \/ \E w \in Workers : Finish(w)
    \/ \E w \in Workers : WorkerStrides(w)
    \/ \E w \in Workers : Resume(w)

\* two view types, nonzero coordinates
Threads ==
    [specs |-> {<<-1, 4>>, <<-1, -1, 4>>},
     bases |-> {ToInt64(4096)},
     strides |-> {16, 64},
     coords |-> [n \in 1..4 |-> IF n <= 2 THEN {1, 2} ELSE {1}]]

InitPar == InitFor(Threads.specs)
NextPar == ParNext(Threads)
SpecPar == InitPar /\ [][NextPar]_vars

----------------------------------------------------------------------------
(* Properties *)

\* the coordinates a call hands to doGetPtr, outermost first
ArgsOf(call) == IF call.op = "subscript" THEN SubscriptArgs(call.c) ELSE call.c

\* the stride of slot i of the view: stored for a slot below the runtime count,
\* the compile-time constant of the slot otherwise
SlotStride(i) == IF i <= kVariableStrides THEN wrap.m_strides[i] ELSE kStride[i]

\* c[1]*S[1] + ... + c[n]*S[n]
RECURSIVE SumProd(_, _, _)
SumProd(c, S, n) == IF n = 0 THEN 0 ELSE SumProd(c, S, n - 1) + c[n] * S[n]

\* the strides the raw-pointer constructor was given, followed by the constants
GivenStrides ==
    [i \in 1..kNumDimensions |->
        IF i <= kVariableStrides THEN input.stride[i].lo ELSE kStride[i]]

\* C1: a view built by the raw-pointer constructor from base address A and
\* runtime strides returns, for a full coordinate tuple given outermost first,
\* A + sum of c[i]*S[i], S[i] being the runtime stride given for slot i below the
\* runtime count and the compile-time constant of slot i otherwise.
C1_PtrIsBasePlusStrides ==
    (input.kind = "raw" /\ last.op = "ptr" /\ Len(last.c) = kNumDimensions)
        => last.ret = ToInt64(input.basePtr.lo
                              + SumProd(last.c, GivenStrides, kNumDimensions))

C1_Witness ==
    /\ kStride = <<-1, -1, -1, 4>>
    /\ input.kind = "raw"
    /\ input.stride = <<ToInt64(6144), ToInt64(1536), ToInt64(16)>>
    /\ last.op = "ptr" /\ last.c = <<2, 3, 1, 0>>
    /\ last.ret = ToInt64(input.basePtr.lo + 16912)

\* c followed by zeros up to n coordinates
PadRight(c, n) == [i \in 1..n |-> IF i <= Len(c) THEN c[i] ELSE 0]

\* C2: ptr given fewer than N coordinates returns the address ptr returns for
\* the same coordinates followed by zeros up to N, and ptr() returns the base
\* address.
C2_PartialIsZeroPadded ==
    (last.op = "ptr" /\ Len(last.c) < kNumDimensions)
        => /\ doGetPtr(wrap, PadRight(last.c, kNumDimensions)) = {last.ret}
           /\ (Len(last.c) = 0 => last.ret = wrap.m_data)

C2_Witness ==
    /\ kStride = <<-1, -1, 16, 4>>
    /\ last.op = "ptr" /\ last.c = <<1, 2, 3>>
    /\ last.ret # wrap.m_data

\* some constant slot of the view that the descriptor has an axis for reports
\* another stride than the constant
ConstMismatch ==
    \E i \in 1..Min(kNumDimensions, input.rank) :
        kStride[i] # RuntimeStride /\ input.stride[i] # ToInt64(kStride[i])

\* C4: construction from a tensor descriptor aborts and yields no view when
\* some constant slot's descriptor stride differs from the constant; when every
\* constant slot's descriptor stride equals its constant, an abort has another
\* cause (the rank, or a runtime stride above the int range).
C4_ConstMismatchAborts ==
    input.kind = "tensor"
        => /\ ConstMismatch => (status = "aborted" /\ wrap = DefaultWrap)
           /\ (status = "aborted" /\ ~ConstMismatch)
                 => \/ input.rank < kNumDimensions
                    \/ \E i \in 1..kVariableStrides :
                          ~Le64(input.stride[i], ToInt64(Int32Max))

C4_Witness ==
    /\ input.kind = "tensor" /\ status = "aborted"
    /\ input.rank >= kNumDimensions
    /\ kStride[kNumDimensions] = 4
    /\ input.stride[kNumDimensions] = ToInt64(3)
    /\ \A i \in 1..(kNumDimensions - 1) :
          kStride[i] # RuntimeStride => input.stride[i] = ToInt64(kStride[i])

\* C5: construction from a tensor descriptor aborts when a runtime slot's
\* 64-bit stride is outside the int range, above or below, so that every
\* stored stride of a constructed view equals the descriptor's stride.
C5_RuntimeStrideRangeChecked ==
    input.kind = "tensor"
        => /\ (\E i \in 1..Min(kNumDimensions, input.rank) :
                  kStride[i] = RuntimeStride /\ ~Fits32(input.stride[i]))
                 => status = "aborted"
           /\ status = "built"
                 => \A i \in 1..kVariableStrides :
                       ToInt64(wrap.m_strides[i]) = input.stride[i]

\* C6: construction from a tensor descriptor of rank R aborts when R < N; when
\* it succeeds R >= N, the base address is the descriptor's, every constant
\* slot's constant is the descriptor's stride at its axis and every runtime slot
\* i holds the descriptor's stride at axis i.
C6_SlotsMatchFirstAxes ==
    input.kind = "tensor"
        => /\ input.rank < kNumDimensions => status = "aborted"
           /\ status = "built"
                 => /\ input.rank >= kNumDimensions
                    /\ wrap.m_data = input.basePtr
                    /\ \A i \in 1..kNumDimensions :
                          IF kStride[i] = RuntimeStride
                          THEN /\ i <= kVariableStrides
                               /\ ToInt64(wrap.m_strides[i]) = input.stride[i]
                          ELSE ToInt64(kStride[i]) = input.stride[i]

\* C7: a 2D view with one runtime stride and the constant stride E, built from
\* an image descriptor with base address B and row stride R, is the view the
\* raw-pointer constructor builds from (B, R), and its ptr(row, col) is
\* B + row*R + col*E.
C7_ImageViewAddresses ==
    (input.kind = "image" /\ kStride[1] = RuntimeStride)
        => /\ wrap = RawCtor(input.basePtr, <<input.stride[1].lo>>)
           /\ (last.op = "ptr" /\ Len(last.c) = 2)
                 => last.ret = ToInt64(input.basePtr.lo
                                       + last.c[1] * input.stride[1].lo
                                       + last.c[2] * kStride[2])

C7_Witness ==
    /\ input.kind = "image" /\ kStride = <<-1, 4>>
    /\ input.stride = <<ToInt64(640)>>
    /\ last.op = "ptr" /\ last.c = <<5, 10>>
    /\ last.ret = ToInt64(input.basePtr.lo + 3240)

\* zeros followed by c, n coordinates in all
PadLeft(c, n) == [i \in 1..n |-> IF i <= n - Len(c) THEN 0 ELSE c[i - (n - Len(c))]]

RECURSIVE IntSum(_, _)
IntSum(c, n) ==
    IF n = 0 THEN [ok |-> TRUE, sum |-> 0]
    ELSE LET p == IntSum(c, n - 1)
         IN IF /\ p.ok
               /\ MulFits(c[n], SlotStride(n))
               /\ AddFits(p.sum, c[n] * SlotStride(n))
            THEN [ok |-> TRUE, sum |-> p.sum + c[n] * SlotStride(n)]
            ELSE [ok |-> FALSE, sum |-> 0]

\* the same sum with every product and addition made in 64 bits
RECURSIVE Sum64(_, _)
Sum64(c, n) ==
    IF n = 0 THEN ToInt64(0) ELSE Add64(Sum64(c, n - 1), Mul64(c[n], SlotStride(n)))

\* C10 as stated: for all int coordinates and strides the address returned is
\* the one obtained with the products and the sum computed in 64 bits.
C10_SameAsWidenedEarly ==
    last.op \in {"ptr", "subscript"}
        => last.ret = Add64(wrap.m_data, Sum64(ArgsOf(last), Len(ArgsOf(last))))

\* C10, amended: when every product and every running sum of c[i]*S[i] fits
\* the int range, the address returned is the one obtained with the products
\* and the sum computed in 64 bits.
C10_SameWhenNothingWraps ==
    last.op \in {"ptr", "subscript"}
        => LET c == ArgsOf(last)
               s == IntSum(c, Len(c))
           IN s.ok => /\ last.ret = Add64(wrap.m_data, Sum64(c, Len(c)))
                      /\ Sum64(c, Len(c)) = ToInt64(s.sum)

C10_Witness ==
    /\ last.op = "ptr" /\ last.c = <<1, 1>>
    /\ wrap.m_strides = <<1073741824>> /\ kStride = <<-1, 4>>
    /\ last.ret = Add64(wrap.m_data, ToInt64(1073741828))

\* the address the read-only view of worker w gives the coordinates args
ConstAddr(w, args) == CHOOSE a \in doGetPtr(copies[w], args) : TRUE

\* the value of the latest of the first n stores whose coordinates the
\* read-only view maps to addr; the initial content 0 when there is none
RECURSIVE LatestAt(_, _)
LatestAt(addr, n) ==
    IF n = 0 THEN 0
    ELSE IF ConstAddr(writes[n].who, writes[n].args) = addr THEN writes[n].val
    ELSE LatestAt(addr, n - 1)

\* C3: a read at c through a read-only view yields the value of the latest
\* write, through a mutable view with the same base address and strides
\* (operator[] or ptr), at a coordinate the read-only view maps to the address
\* of c; writes at coordinates that map to other addresses do not change it.
C3_WriteThenReadBack ==
    last.op = "load"
        => last.val = LatestAt(ConstAddr(last.who, SubscriptArgs(last.c)), Len(writes))

C3_Witness ==
    /\ last.op = "load" /\ Len(writes) = 2
    /\ writes[1].args = SubscriptArgs(last.c)
    /\ writes[1].who # last.who
    /\ ConstAddr(writes[2].who, writes[2].args) # last.ret
    /\ last.val = writes[1].val

\* the view as the constructor built it
BuiltWrap == RawCtor(input.basePtr, [i \in 1..kVariableStrides |-> input.stride[i].lo])

\* C8: whatever the interleaving of the workers' ptr, operator[] and strides()
\* calls, every copy keeps the base address and the strides the view was
\* constructed with, and every completed call returned what the call returns
\* on that state alone.
C8_WorkersIndependent ==
    status = "launched"
        => \A w \in Workers :
              /\ copies[w] = BuiltWrap
              /\ (frame[w].pc = "done" /\ frame[w].op = "strides")
                    => frame[w].strides = BuiltWrap.m_strides
              /\ (frame[w].pc = "done" /\ frame[w].op # "strides")
                    => doGetPtr(BuiltWrap, frame[w].c) = {frame[w].ret}

C8_Witness ==
    /\ frame[1].pc = "done" /\ frame[1].op = "ptr" /\ Len(frame[1].c) = kNumDimensions
    /\ frame[2].pc = "const" /\ frame[2].i > kVariableStrides
    /\ frame[1].c # frame[2].c
    /\ acc[1] # acc[2]

\* the number of runtime markers among the declared strides
RECURSIVE CountMarkers(_)
CountMarkers(n) ==
    IF n = 0 THEN 0
    ELSE CountMarkers(n - 1) + (IF kStride[n] = RuntimeStride THEN 1 ELSE 0)

\* C11: for every view type of which a view is constructed, the runtime count
\* is the number of runtime markers, the constant count is N minus the runtime
\* count, and every runtime marker precedes every constant entry: a view type
\* with a runtime marker after a constant entry yields no view.
C11_ConstantsFormSuffix ==
    status = "built"
        => /\ kVariableStrides = CountMarkers(kNumDimensions)
           /\ kConstantStrides = kNumDimensions - kVariableStrides
           /\ \A i, j \in 1..kNumDimensions :
                 (i < j /\ kStride[i] # RuntimeStride) => kStride[j] # RuntimeStride

====
